---- MODULE Spec2Model ----
(***************************************************************************)
(* Model of ScreenColorMonitor (src/main.py): the sampling loop thread,    *)
(* the debounced trigger press_key, the delayed action units               *)
(* (threading.Timer -> _execute_press) and the lifecycle operations        *)
(* start / stop / pause / resume issued from the GUI thread.               *)
(*                                                                         *)
(* Time is discrete.  One tick stands for one second of wall time, so the  *)
(* join timeout (2 s) is 2 ticks and the fps window (1.0 s) is 1 tick; the *)
(* 0.1 s sleeps are shorter than one tick and are modelled as a sleep of   *)
(* "at least 0 ticks".  The millisecond fields of the configuration are    *)
(* given in ticks.  A sleep of d ticks may always last longer than d.      *)
(***************************************************************************)
EXTENDS Integers, Sequences, FiniteSets, TLC

\* ------------------------------------------------------------------ bounds
MaxNow == 2
MaxLoops == 2
MaxAccepts == 3
MaxFrames == 1
MaxMissing == 2

\* ------------------------------------------------------- program constants
JoinTimeout == 2
FpsWindow == 1
PollSlice == 0
NoThread == 0

\* ------------------------------------------------------------ configuration
Red == <<255, 0, 0>>
Black == <<0, 0, 0>>

Cooldowns == {0, 2}
Delays == {0, 1}
Intervals == {0, 2}
Keys == {"e", "nokey"}

default_config ==
    [ monitor_region       |-> [left |-> 100, top |-> 100, width |-> 200, height |-> 200],
      target_color         |-> [r |-> 255, g |-> 0, b |-> 0],
      color_tolerance      |-> 30,
      threshold_percentage |-> 10,
      press_key            |-> "e",
      press_delay_ms       |-> 0,
      cooldown_ms          |-> 100,
      check_interval_ms    |-> 10,
      hotkey_start_stop    |-> "f9",
      hotkey_pause_resume  |-> "f10",
      hotkey_screenshot    |-> "f8" ]

\* monitored regions: a strip of 2 pixels and the square of 10 x 10 pixels
Strip == [left |-> 100, top |-> 100, width |-> 2, height |-> 1]
Square == [left |-> 100, top |-> 100, width |-> 10, height |-> 10]

Tolerances == {0, 30, 255}
Thresholds == {29, 50}

\* The records MonitorGUI.save_config can install (and load_config can return).
Configs ==
    { [default_config EXCEPT !.monitor_region = Strip,
                             !.threshold_percentage = 50,
                             !.color_tolerance = 0,
                             !.press_key = k,
                             !.press_delay_ms = d,
                             !.cooldown_ms = c,
                             !.check_interval_ms = i] :
        k \in Keys, d \in Delays, c \in Cooldowns, i \in Intervals }

\* keys the keyboard controller accepts (Controller.press raises on others)
ValidKeyAny(key_str) == TRUE

ValidKey(key_str) == key_str \in {"e", "space", "shift", "ctrl"}

\* records over the square region, for the match computation
MatchConfigs ==
    { [default_config EXCEPT !.monitor_region = Square,
                             !.color_tolerance = tol,
                             !.threshold_percentage = th,
                             !.cooldown_ms = 0,
                             !.check_interval_ms = 0] :
        tol \in Tolerances, th \in Thresholds }

\* pixels at distance 30 and 31 from the target red, on one channel
NearRed == <<225, 0, 0>>
OffRed == <<255, 31, 0>>
Pixels == {Red, NearRed, OffRed, Black}

\* numbers of leading pixels of a square frame that have the first colour
Counts == {0, 29, 40, 60, 100}

\* a frame of total pixels: n of colour a, then pixels of colour b
Buffer(total, n, a, b) == [k \in 1..total |-> IF k <= n THEN a ELSE b]

\* frames the screen capturer can return for a region: sequences of
\* width * height RGB pixels
Frames(region) ==
    IF region = Strip
    THEN { <<Red, Red>>, <<Red, Black>>, <<Black, Black>> }
    ELSE { Buffer(region.width * region.height, n, a, b) :
             n \in Counts, a \in Pixels, b \in Pixels }

Max(a, b) == IF a >= b THEN a ELSE b
Abs(x) == IF x >= 0 THEN x ELSE -x
Highest(S) == CHOOSE x \in S : \A y \in S : x >= y
Lowest(S) == CHOOSE x \in S : \A y \in S : x <= y

\* The clock at construction.  time.time() * 1000 is far above any cooldown a
\* configuration holds, while last_trigger_time starts at 0.
Epoch == 1 + Highest(Cooldowns)
Horizon == Epoch + MaxNow

LoopIds == 1..MaxLoops
\* every Timer belongs to one accepted invocation
TimerIds == 1..MaxAccepts

VARIABLES
    now,                 \* the clock (time.time(), time.perf_counter()), in ticks
    config,              \* self.config
    file,                \* the contents of config.json
    is_running,          \* self.is_running
    is_paused,           \* self.is_paused
    monitor_thread,      \* self.monitor_thread: a loop id, or NoThread for None
    trigger_count,       \* self.trigger_count
    last_trigger_time,   \* self.last_trigger_time
    detection_count,     \* self.detection_count
    last_fps_check_time, \* self.last_fps_check_time
    fps,                 \* self.fps, as the pair <<frames, elapsed>> (0 as <<0, 1>>)
    gui,                 \* the GUI thread: idle, or blocked in monitor_thread.join
    loops,               \* the monitor_loop threads
    timers,              \* the threading.Timer units started by press_key
    inv,                 \* history: the latest press_key invocation and the accepted one before it
    accepts,             \* history: accepted invocations dispatched
    pressed,             \* history: key actions executed successfully
    overlap,             \* history: two press_key invocations have interleaved
    calls                \* history: the latest lifecycle call

vars == << now, config, file, is_running, is_paused, monitor_thread, trigger_count,
           last_trigger_time, detection_count, last_fps_check_time, fps, gui,
           loops, timers, inv, accepts, pressed, overlap, calls >>

shared == << is_running, is_paused, monitor_thread >>
stats == << detection_count, last_fps_check_time, fps >>
hist == << inv, accepts, pressed, overlap >>

\* ------------------------------------------------------------- thread state
\* at_start records the configuration in force when the iteration began
NoLoop ==
    [ pc |-> "none", loop_start_time |-> 0, left |-> 0, img |-> <<>>,
      current_time |-> 0, count |-> 0, at_start |-> default_config ]

\* key_str is the local of _execute_press; at_accept records the press_key in
\* force when the Timer was started
NoTimer ==
    [ pc |-> "free", left |-> 0, count |-> 0, t |-> 0, key_str |-> "",
      at_accept |-> "" ]

\* verdict of the latest invocation; time of the latest accepted one (0: none)
NoInv == [ verdict |-> "none", accepted_at |-> 0 ]
NoCall == [ op |-> "none", was_running |-> FALSE, was_paused |-> FALSE ]

Alive(i) == i \in LoopIds /\ loops[i].pc # "none"
AliveLoops == { i \in LoopIds : Alive(i) }
FreeLoops == { i \in LoopIds : ~Alive(i) }
FreeTimers == { j \in TimerIds : timers[j].pc = "free" }

\* config.json holding the object obj
Stored(obj) == [kind |-> "object", obj |-> obj]

\* the attributes __init__ sets, the configuration apart
Fresh ==
    /\ now = Epoch
    /\ is_running = FALSE
    /\ is_paused = FALSE
    /\ monitor_thread = NoThread
    /\ trigger_count = 0
    /\ last_trigger_time = 0
    /\ detection_count = 0
    /\ last_fps_check_time = Epoch
    /\ fps = <<0, 1>>
    /\ loops = [i \in LoopIds |-> NoLoop]
    /\ timers = [j \in TimerIds |-> NoTimer]
    /\ inv = NoInv
    /\ accepts = 0
    /\ pressed = 0
    /\ overlap = FALSE
    /\ calls = NoCall

\* the state after construction, the configuration one of cfgs
InitWith(cfgs) ==
    /\ config \in cfgs
    /\ file = Stored(config)
    /\ gui = [pc |-> "idle", left |-> 0]
    /\ Fresh

Call(op) == [ op |-> op, was_running |-> is_running, was_paused |-> is_paused ]

\* ------------------------------------------------ lifecycle (the GUI thread)
\* if not self.is_running:
CanStartAlways == TRUE

CanStart == ~is_running

\* self.is_paused = False
PausedKept(paused) == paused

PausedAfterStart(paused) == FALSE

\* start_monitoring: a no-op while is_running; otherwise marks RUNNING, clears
\* the paused flag and starts a monitor_loop thread.
start_monitoring ==
    /\ gui.pc = "idle"
    /\ calls' = Call("start")
    /\ IF CanStart
       THEN /\ FreeLoops # {}
            /\ is_running' = TRUE
            /\ is_paused' = PausedAfterStart(is_paused)
            /\ monitor_thread' = Lowest(FreeLoops)
            /\ loops' = [loops EXCEPT ![Lowest(FreeLoops)] = [NoLoop EXCEPT !.pc = "init"]]
       ELSE UNCHANGED << is_running, is_paused, monitor_thread, loops >>
    /\ UNCHANGED << now, config, file, trigger_count, last_trigger_time, stats, gui,
                    timers, hist >>

\* stop_monitoring, up to the call of monitor_thread.join(timeout=2)
stop_monitoring ==
    /\ gui.pc = "idle"
    /\ calls' = NoCall
    /\ is_running' = FALSE
    /\ gui' = IF monitor_thread # NoThread
              THEN [pc |-> "join", left |-> JoinTimeout]
              ELSE gui
    /\ UNCHANGED << now, config, file, is_paused, monitor_thread, trigger_count,
                    last_trigger_time, stats, loops, timers, hist >>

\* join returns once the thread has ended or the timeout has elapsed
JoinDone == ~Alive(monitor_thread) \/ gui.left = 0

join_return ==
    /\ gui.pc = "join"
    /\ JoinDone
    /\ gui' = [pc |-> "idle", left |-> 0]
    /\ UNCHANGED << now, config, file, shared, trigger_count, last_trigger_time, stats,
                    loops, timers, hist, calls >>

pause_monitoring ==
    /\ gui.pc = "idle"
    /\ calls' = NoCall
    /\ is_paused' = TRUE
    /\ UNCHANGED << now, config, file, is_running, monitor_thread, trigger_count,
                    last_trigger_time, stats, gui, loops, timers, hist >>

resume_monitoring ==
    /\ gui.pc = "idle"
    /\ calls' = NoCall
    /\ is_paused' = FALSE
    /\ UNCHANGED << now, config, file, is_running, monitor_thread, trigger_count,
                    last_trigger_time, stats, gui, loops, timers, hist >>

\* MonitorGUI.save_config: self.monitor.config = config, the new record one
\* of cfgs
SaveConfig(cfgs) ==
    /\ gui.pc = "idle"
    /\ calls' = NoCall
    /\ config' \in cfgs \ {config}
    /\ file' = Stored(config')
    /\ UNCHANGED << now, shared, trigger_count, last_trigger_time, stats, gui,
                    loops, timers, hist >>

save_config == SaveConfig(Configs \cup MatchConfigs)

\* -------------------------------------------------------------- load_config
TopKeys == DOMAIN default_config
\* the keys whose default value is a dict
NestedKeys == {"monitor_region", "target_color"}

\* a record written by an earlier run, every value different from the default
stored_config ==
    [ monitor_region       |-> [left |-> 5, top |-> 6, width |-> 7, height |-> 8],
      target_color         |-> [r |-> 0, g |-> 128, b |-> 64],
      color_tolerance      |-> 0,
      threshold_percentage |-> 50,
      press_key            |-> "space",
      press_delay_ms       |-> 1,
      cooldown_ms          |-> 2,
      check_interval_ms    |-> 2,
      hotkey_start_stop    |-> "f1",
      hotkey_pause_resume  |-> "f2",
      hotkey_screenshot    |-> "f3" ]

\* the object f without the keys of S
Without(f, S) == [k \in DOMAIN f \ S |-> f[k]]

Lacking(K) == { S \in SUBSET K : Cardinality(S) <= MaxMissing }

\* JSON objects that lack some top-level keys and some keys of the nested
\* objects, and the empty object
StoredObjects ==
    { Without([stored_config EXCEPT !.monitor_region = Without(@, R),
                                    !.target_color = Without(@, C)], T) :
        T \in Lacking(TopKeys),
        R \in Lacking(DOMAIN default_config.monitor_region),
        C \in Lacking(DOMAIN default_config.target_color) }
    \cup { <<>> }

\* config.json is missing; is not JSON; is JSON but not an object (a list, a
\* number, a string, null)
Absent == [kind |-> "absent"]
Garbage == [kind |-> "garbage"]
NotAnObject == [kind |-> "value"]

StoredFiles == {Absent, Garbage, NotAnObject} \cup { Stored(o) : o \in StoredObjects }

\* the loop over default_config.items(): defaults written over what is stored
MergeDefaultsOver(loaded) == default_config

\* the loop over default_config.items(): missing keys and sub-keys are set
Merge(loaded) ==
    [ key \in DOMAIN loaded \cup TopKeys |->
        IF key \notin DOMAIN loaded
        THEN default_config[key]
        ELSE IF key \in NestedKeys
             THEN [ sub_key \in DOMAIN loaded[key] \cup DOMAIN default_config[key] |->
                      IF sub_key \notin DOMAIN loaded[key]
                      THEN default_config[key][sub_key]
                      ELSE loaded[key][sub_key] ]
             ELSE loaded[key] ]

\* self.config = self.load_config(), in __init__: open and json.load raise
\* FileNotFoundError or JSONDecodeError, which are caught; the merge loop
\* raises TypeError on a value that is not an object, which is not caught
load_config ==
    /\ gui.pc = "new"
    /\ \/ /\ file.kind \in {"absent", "garbage"}
          /\ config' = default_config
          /\ file' = Stored(default_config)
          /\ gui' = [gui EXCEPT !.pc = "idle"]
       \/ /\ file.kind = "value"
          /\ gui' = [gui EXCEPT !.pc = "failed"]
          /\ UNCHANGED << config, file >>
       \/ /\ file.kind = "object"
          /\ config' = Merge(file.obj)
          /\ gui' = [gui EXCEPT !.pc = "idle"]
          /\ UNCHANGED file
    /\ UNCHANGED << now, shared, trigger_count, last_trigger_time, stats, loops,
                    timers, hist, calls >>

\* before the constructor has run: config.json as an earlier run or the user
\* left it
InitLoad ==
    /\ config = default_config
    /\ file \in StoredFiles
    /\ gui = [pc |-> "new", left |-> 0]
    /\ Fresh

\* ------------------------------------------------------- check_color_match
\* a pixel matches iff every channel differs from the target by <= tolerance
PixelMatchesAtDistance(px, target, tolerance) ==
    /\ Max(Abs(px[1] - target.r), Max(Abs(px[2] - target.g), Abs(px[3] - target.b)))
         = tolerance

PixelMatchesBelow(px, target, tolerance) ==
    /\ Abs(px[1] - target.r) < tolerance
    /\ Abs(px[2] - target.g) < tolerance
    /\ Abs(px[3] - target.b) < tolerance

PixelMatches(px, target, tolerance) ==
    /\ Abs(px[1] - target.r) <= tolerance
    /\ Abs(px[2] - target.g) <= tolerance
    /\ Abs(px[3] - target.b) <= tolerance

matched_pixels(img, target, tolerance) ==
    Cardinality({ k \in DOMAIN img : PixelMatches(img[k], target, tolerance) })

\* The float64 value of (matched_pixels / total_pixels) * 100 for the frame
\* sizes of the model (2 and 100 pixels, for which 100 * m / t is a whole
\* number): the whole number, and the sign of the rounding error of the two
\* float operations.  (29 / 100) * 100 is 28.999999999999996, and
\* (7 / 100) * 100 is 7.000000000000001; with 2 pixels the result is exact.
RoundedDown == { <<29, 100>>, <<57, 100>>, <<58, 100>> }
RoundedUp == { <<7, 100>>, <<14, 100>>, <<28, 100>>, <<55, 100>>, <<56, 100>> }

Percentage(m, t) ==
    [whole |-> (m * 100) \div t,
     ulps  |-> IF <<m, t>> \in RoundedDown THEN -1
               ELSE IF <<m, t>> \in RoundedUp THEN 1 ELSE 0]

check_color_match(img, cfg) ==
    Percentage(matched_pixels(img, cfg.target_color, cfg.color_tolerance), Len(img))

\* ------------------------------------------------------------ monitor_loop
Goto(i, label) == [loops[i] EXCEPT !.pc = label]

\* the statements before the while loop
LoopInit(i) ==
    /\ loops[i].pc = "init"
    /\ detection_count' = 0
    /\ last_fps_check_time' = now
    /\ loops' = [loops EXCEPT ![i] = Goto(i, "top")]
    /\ UNCHANGED << now, config, file, shared, trigger_count, last_trigger_time, fps,
                    gui, timers, hist, calls >>

\* while self.is_running: loop_start_time = time.perf_counter()
LoopTop(i) ==
    /\ loops[i].pc = "top"
    /\ loops' = [loops EXCEPT ![i] =
                    IF is_running
                    THEN [loops[i] EXCEPT !.pc = "paused", !.loop_start_time = now,
                                          !.at_start = config]
                    ELSE NoLoop]
    /\ UNCHANGED << now, config, file, shared, trigger_count, last_trigger_time, stats,
                    gui, timers, hist, calls >>

\* if self.is_paused: time.sleep(0.1); continue
LoopPaused(i) ==
    /\ loops[i].pc = "paused"
    /\ loops' = [loops EXCEPT ![i] =
                    IF is_paused
                    THEN [loops[i] EXCEPT !.pc = "poll", !.left = PollSlice,
                                          !.loop_start_time = 0,
                                          !.at_start = default_config]
                    ELSE Goto(i, "capture")]
    /\ UNCHANGED << now, config, file, shared, trigger_count, last_trigger_time, stats,
                    gui, timers, hist, calls >>

\* the fps window: current_time - self.last_fps_check_time >= 1.0
WindowElapsed(current_time, last) == current_time - last >= FpsWindow

\* invocations a loop has begun and not yet dispatched
Undispatched ==
    { i \in LoopIds : loops[i].pc \in {"fps", "match", "pk_check", "pk_set"} }

\* keeps the counters of the model within MaxFrames and MaxAccepts
Budget ==
    /\ detection_count < MaxFrames \/ WindowElapsed(now, last_fps_check_time)
    /\ accepts + Cardinality(Undispatched) < MaxAccepts

\* img = self.capture_screen_region(sct), then the load of
\* self.detection_count += 1; a failed capture raises into the except clause:
\* time.sleep(0.1)
LoopCapture(i) ==
    /\ loops[i].pc = "capture"
    /\ \/ /\ Budget
          /\ \E f \in Frames(config.monitor_region) :
                loops' = [loops EXCEPT ![i] =
                            [loops[i] EXCEPT !.pc = "fps", !.img = f,
                                             !.count = detection_count]]
       \/ /\ loops' = [loops EXCEPT ![i] =
                          [loops[i] EXCEPT !.pc = "except", !.left = PollSlice]]
    /\ UNCHANGED << now, config, file, shared, trigger_count, last_trigger_time, stats,
                    gui, timers, hist, calls >>

\* the store of self.detection_count += 1, then the fps window: when it has
\* elapsed, fps = detection_count / elapsed and the window starts again
LoopFps(i) ==
    /\ loops[i].pc = "fps"
    /\ IF WindowElapsed(now, last_fps_check_time)
       THEN /\ fps' = << loops[i].count + 1, now - last_fps_check_time >>
            /\ detection_count' = 0
            /\ last_fps_check_time' = now
       ELSE /\ detection_count' = loops[i].count + 1
            /\ UNCHANGED << fps, last_fps_check_time >>
    /\ loops' = [loops EXCEPT ![i] = [loops[i] EXCEPT !.pc = "match", !.count = 0]]
    /\ UNCHANGED << now, config, file, shared, trigger_count, last_trigger_time, gui,
                    timers, hist, calls >>

\* if percentage >= threshold: self.press_key(), the percentage a float
ReachesThreshold(percentage, threshold) ==
    \/ percentage.whole > threshold
    \/ percentage.whole = threshold /\ percentage.ulps >= 0

\* percentage, mask = self.check_color_match(img) and the threshold test
LoopMatch(i) ==
    /\ loops[i].pc = "match"
    /\ loops' = [loops EXCEPT ![i] =
                    [loops[i] EXCEPT !.img = <<>>,
                       !.pc = IF ReachesThreshold(check_color_match(loops[i].img, config),
                                                  config.threshold_percentage)
                              THEN "pk_check" ELSE "cadence"]]
    /\ UNCHANGED << now, config, file, shared, trigger_count, last_trigger_time, stats,
                    gui, timers, hist, calls >>

\* ---------------------------------------------------------------- press_key
\* if current_time - self.last_trigger_time < cooldown: return
InCooldownInclusive(current_time, last, cooldown) == current_time - last <= cooldown

InCooldownNever(current_time, last, cooldown) == FALSE

InCooldown(current_time, last, cooldown) == current_time - last < cooldown

\* press_key up to the cooldown check
PressKeyCheck(i) ==
    /\ loops[i].pc = "pk_check"
    /\ LET dropped == InCooldown(now, last_trigger_time, config.cooldown_ms) IN
        /\ inv' = IF dropped
                  THEN [inv EXCEPT !.verdict = "dropped"]
                  ELSE [verdict |-> "accepted", accepted_at |-> now]
        /\ loops' = [loops EXCEPT ![i] =
                        IF dropped
                        THEN Goto(i, "cadence")
                        ELSE [loops[i] EXCEPT !.pc = "pk_set", !.current_time = now]]
    /\ overlap' = (overlap \/ \E k \in LoopIds \ {i} : loops[k].pc = "pk_set")
    /\ UNCHANGED << now, config, file, shared, trigger_count, last_trigger_time, stats,
                    gui, timers, accepts, pressed, calls >>

\* threading.Timer(delay_s, self._execute_press).start()
StartTimer(j, delay_ms, t) ==
    [timers EXCEPT ![j] = [pc |-> "wait", left |-> delay_ms, count |-> 0, t |-> t,
                           key_str |-> "", at_accept |-> config.press_key]]

\* if delay_ms > 0
DelayedNever(delay_ms) == FALSE

DelayedAlways(delay_ms) == TRUE

Delayed(delay_ms) == delay_ms > 0

\* self.last_trigger_time = current_time
StampDeferred(current_time, last) == last

Stamp(current_time, last) == current_time

\* self.last_trigger_time = current_time, then the dispatch on press_delay_ms
PressKeySet(i) ==
    /\ loops[i].pc = "pk_set"
    /\ last_trigger_time' = Stamp(loops[i].current_time, last_trigger_time)
    /\ accepts' = accepts + 1
    /\ IF Delayed(config.press_delay_ms)
       THEN /\ timers' = StartTimer(Lowest(FreeTimers), config.press_delay_ms,
                                    loops[i].current_time)
            /\ loops' = [loops EXCEPT ![i] =
                            [loops[i] EXCEPT !.pc = "cadence", !.current_time = 0]]
       ELSE /\ loops' = [loops EXCEPT ![i] =
                            [loops[i] EXCEPT !.pc = "ex_press", !.current_time = 0]]
            /\ UNCHANGED timers
    /\ UNCHANGED << now, config, file, shared, trigger_count, stats, gui, inv, pressed,
                    overlap, calls >>

\* ----------------------------------------------------------- _execute_press
\* The key action, then the load of self.trigger_count += 1.  An unrecognized
\* key raises inside the try block and the increment is skipped.
ExecPress(i) ==
    /\ loops[i].pc = "ex_press"
    /\ IF ValidKey(config.press_key)
       THEN /\ pressed' = pressed + 1
            /\ loops' = [loops EXCEPT ![i] =
                            [loops[i] EXCEPT !.pc = "ex_write", !.count = trigger_count]]
       ELSE /\ loops' = [loops EXCEPT ![i] = Goto(i, "cadence")]
            /\ UNCHANGED pressed
    /\ UNCHANGED << now, config, file, shared, trigger_count, last_trigger_time, stats,
                    gui, timers, inv, accepts, overlap, calls >>

\* the store of self.trigger_count += 1
Incremented(count) == count + 1

ExecWrite(i) ==
    /\ loops[i].pc = "ex_write"
    /\ trigger_count' = Incremented(loops[i].count)
    /\ loops' = [loops EXCEPT ![i] = [loops[i] EXCEPT !.pc = "cadence", !.count = 0]]
    /\ UNCHANGED << now, config, file, shared, last_trigger_time, stats, gui, timers,
                    hist, calls >>

\* the Timer runs its function once its interval has elapsed; nothing in the
\* program cancels it
ExpiredWhileRunning(j) == timers[j].left = 0 /\ is_running

Expired(j) == timers[j].left = 0

\* key_str = self.config['press_key'].lower(), when _execute_press runs
KeyAtAccept(j) == timers[j].at_accept

KeyPressed(j) == config.press_key

\* the Timer thread: wait for the delay, then _execute_press
TimerFire(j) ==
    /\ timers[j].pc = "wait"
    /\ Expired(j)
    /\ IF ValidKey(KeyPressed(j))
       THEN /\ pressed' = pressed + 1
            /\ timers' = [timers EXCEPT ![j] = [timers[j] EXCEPT !.pc = "write",
                                                                 !.count = trigger_count,
                                                                 !.key_str = KeyPressed(j)]]
       ELSE /\ timers' = [timers EXCEPT ![j] = NoTimer]
            /\ UNCHANGED pressed
    /\ UNCHANGED << now, config, file, shared, trigger_count, last_trigger_time, stats,
                    gui, loops, inv, accepts, overlap, calls >>

TimerWrite(j) ==
    /\ timers[j].pc = "write"
    /\ trigger_count' = Incremented(timers[j].count)
    /\ timers' = [timers EXCEPT ![j] = NoTimer]
    /\ UNCHANGED << now, config, file, shared, last_trigger_time, stats, gui, loops,
                    hist, calls >>

\* ------------------------------------------------------- sleeps and cadence
\* time_to_wait = target_interval - loop_duration, slept when positive
TimeToWaitNone(target_interval, loop_start_time, t) == 0

TimeToWait(target_interval, loop_start_time, t) ==
    IF target_interval > 0
    THEN Max(0, target_interval - (t - loop_start_time))
    ELSE 0

LoopCadence(i) ==
    /\ loops[i].pc = "cadence"
    /\ LET wait == TimeToWait(config.check_interval_ms, loops[i].loop_start_time, now) IN
        loops' = [loops EXCEPT ![i] =
                    IF wait > 0
                    THEN [loops[i] EXCEPT !.pc = "sleep", !.left = wait,
                                          !.at_start = default_config]
                    ELSE [loops[i] EXCEPT !.pc = "top", !.loop_start_time = 0,
                                          !.at_start = default_config]]
    /\ UNCHANGED << now, config, file, shared, trigger_count, last_trigger_time, stats,
                    gui, timers, hist, calls >>

\* where a time.sleep returns to
AfterSleepFallsThrough(label) ==
    CASE label = "poll"   -> "capture"
      [] label = "except" -> "cadence"
      [] label = "sleep"  -> "top"

AfterSleepRepolls(label) ==
    CASE label = "poll"   -> "paused"
      [] label = "except" -> "cadence"
      [] label = "sleep"  -> "top"

AfterSleepGivesUp(label) ==
    CASE label = "poll"   -> "top"
      [] label = "except" -> "none"
      [] label = "sleep"  -> "top"

AfterSleep(label) ==
    CASE label = "poll"   -> "top"
      [] label = "except" -> "cadence"
      [] label = "sleep"  -> "top"

LoopWake(i) ==
    /\ loops[i].pc \in {"poll", "except", "sleep"}
    /\ loops[i].left = 0
    /\ loops' = [loops EXCEPT ![i] =
                    [loops[i] EXCEPT !.pc = AfterSleep(loops[i].pc),
                                     !.loop_start_time =
                                        IF loops[i].pc = "except" THEN @ ELSE 0]]
    /\ UNCHANGED << now, config, file, shared, trigger_count, last_trigger_time, stats,
                    gui, timers, hist, calls >>

\* ------------------------------------------------------------------- time
Dec(n) == IF n > 0 THEN n - 1 ELSE 0

\* one tick of wall time: the clock advances, every sleep, Timer and join
\* timeout in progress has one tick less to go
Tick ==
    /\ now < Horizon
    /\ now' = now + 1
    /\ loops' = [i \in LoopIds |-> [loops[i] EXCEPT !.left = Dec(@)]]
    /\ timers' = [j \in TimerIds |-> [timers[j] EXCEPT !.left = Dec(@)]]
    /\ gui' = [gui EXCEPT !.left = Dec(@)]
    /\ UNCHANGED << config, file, shared, trigger_count, last_trigger_time, stats, hist,
                    calls >>

\* --------------------------------------------------------- specifications
LoopStep(i) ==
    \/ LoopInit(i)
    \/ LoopTop(i)
    \/ LoopPaused(i)
    \/ LoopCapture(i)
    \/ LoopFps(i)
    \/ LoopMatch(i)
    \/ PressKeyCheck(i)
    \/ PressKeySet(i)
    \/ ExecPress(i)
    \/ ExecWrite(i)
    \/ LoopCadence(i)
    \/ LoopWake(i)

TimerStep(j) == TimerFire(j) \/ TimerWrite(j)

Lifecycle ==
    \/ start_monitoring
    \/ stop_monitoring
    \/ join_return
    \/ pause_monitoring
    \/ resume_monitoring

Next ==
    \/ load_config
    \/ Lifecycle
    \/ save_config
    \/ \E i \in LoopIds : LoopStep(i)
    \/ \E j \in TimerIds : TimerStep(j)
    \/ Tick

Init == InitLoad \/ InitWith(Configs \cup MatchConfigs)

\* The whole system.  The specifications below are restrictions of it (fewer
\* configurations, fewer operations), so each of their behaviours is a
\* behaviour of Spec.
Spec == Init /\ [][Next]_vars

\* One run of the monitor with its delayed actions: a fixed configuration, the
\* loop started once and possibly stopped.
TriggerConfigs == { c \in Configs : c.press_key = "e" /\ c.check_interval_ms = 0 }

FirstStart == monitor_thread = NoThread /\ start_monitoring

NextTrigger ==
    \/ FirstStart
    \/ stop_monitoring
    \/ join_return
    \/ \E i \in LoopIds : LoopStep(i)
    \/ \E j \in TimerIds : TimerStep(j)
    \/ Tick

SpecTrigger == InitWith(TriggerConfigs) /\ [][NextTrigger]_vars

\* The lifecycle operations in any order over the loop threads, under a fixed
\* configuration without press delay.
LifecycleConfigs ==
    { c \in Configs : c.press_key = "e" /\ c.check_interval_ms = 2
                      /\ c.press_delay_ms = 0 /\ c.cooldown_ms = 2 }

NextLifecycle ==
    \/ Lifecycle
    \/ \E i \in LoopIds : LoopStep(i)
    \/ Tick

SpecLifecycle == InitWith(LifecycleConfigs) /\ [][NextLifecycle]_vars

\* Time beyond the horizon: the clock value stays at Horizon while the sleeps,
\* Timers and timeouts in progress keep running down.
TickOn ==
    /\ \/ now < Horizon
       \/ \E i \in LoopIds : loops[i].left > 0
       \/ \E j \in TimerIds : timers[j].left > 0
       \/ gui.left > 0
    /\ now' = IF now < Horizon THEN now + 1 ELSE now
    /\ loops' = [i \in LoopIds |-> [loops[i] EXCEPT !.left = Dec(@)]]
    /\ timers' = [j \in TimerIds |-> [timers[j] EXCEPT !.left = Dec(@)]]
    /\ gui' = [gui EXCEPT !.left = Dec(@)]
    /\ UNCHANGED << config, file, shared, trigger_count, last_trigger_time, stats, hist,
                    calls >>

\* the calls the user makes, all before the horizon: one start, and no start
\* after a stop
LifecycleCalls ==
    /\ now < Horizon
    /\ \/ FirstStart
       \/ stop_monitoring
       \/ pause_monitoring
       \/ resume_monitoring

NextLive ==
    \/ LifecycleCalls
    \/ join_return
    \/ \E i \in LoopIds : LoopStep(i)
    \/ TickOn

\* The lifecycle specification with the scheduling the runtime provides: time
\* passes, and every loop thread that can take a step eventually takes one.
\* The GUI thread is under no obligation to call anything.
SpecLive ==
    /\ InitWith(LifecycleConfigs)
    /\ [][NextLive]_vars
    /\ WF_vars(TickOn)
    /\ \A i \in LoopIds : WF_vars(LoopStep(i))

\* One run of the monitor under cooldown 0, with a key the controller accepts
\* or one it rejects, and captures that can fail.
FaultConfigs == { c \in Configs : c.cooldown_ms = 0 /\ c.check_interval_ms = 0 }

SpecFaults == InitWith(FaultConfigs) /\ [][NextTrigger]_vars

\* The first iterations of one run of the monitor over the square region,
\* without press delay: every frame, tolerance and threshold of the match
\* computation.
NextMatch ==
    \/ FirstStart
    \/ \E i \in LoopIds : LoopStep(i)

SpecMatch == InitWith(MatchConfigs) /\ [][NextMatch]_vars

\* One run of the monitor without press delay, under every check interval.
CadenceConfigs ==
    { c \in Configs : c.press_key = "e" /\ c.press_delay_ms = 0 /\ c.cooldown_ms = 2 }

NextRun ==
    \/ FirstStart
    \/ stop_monitoring
    \/ join_return
    \/ \E i \in LoopIds : LoopStep(i)
    \/ Tick

SpecCadence == InitWith(CadenceConfigs) /\ [][NextRun]_vars

\* One run of the monitor during which the GUI replaces the configuration:
\* two records that differ in cooldown and check interval.
ReconfigConfigs ==
    { c \in Configs : /\ c.press_key = "e"
                      /\ c.press_delay_ms = 0
                      /\ c.cooldown_ms = c.check_interval_ms }

NextReconfig ==
    \/ FirstStart
    \/ SaveConfig(ReconfigConfigs)
    \/ \E i \in LoopIds : LoopStep(i)
    \/ Tick

SpecReconfig == InitWith(ReconfigConfigs) /\ [][NextReconfig]_vars

\* The construction of the monitor over every stored config.json.
SpecLoad == InitLoad /\ [][load_config]_vars

\* One run of the monitor with its delayed actions under the scheduling the
\* runtime provides: time passes, and every loop thread and every Timer thread
\* that can take a step eventually takes one.
DelayedConfigs ==
    { c \in Configs : c.press_key = "e" /\ c.cooldown_ms = 2 /\ c.check_interval_ms = 2 }

NextDelayed ==
    \/ LifecycleCalls
    \/ join_return
    \/ \E i \in LoopIds : LoopStep(i)
    \/ \E j \in TimerIds : TimerStep(j)
    \/ TickOn

SpecDelayed ==
    /\ InitWith(DelayedConfigs)
    /\ [][NextDelayed]_vars
    /\ WF_vars(TickOn)
    /\ \A i \in LoopIds : WF_vars(LoopStep(i))
    /\ \A j \in TimerIds : WF_vars(TimerStep(j))

\* One run of the monitor with its delayed actions during which the GUI
\* replaces the configuration: records that differ in key and press delay.
RekeyConfigs ==
    { c \in Configs : c.cooldown_ms = 2 /\ c.check_interval_ms = 2 }

NextRekey ==
    \/ FirstStart
    \/ SaveConfig(RekeyConfigs)
    \/ \E i \in LoopIds : LoopStep(i)
    \/ \E j \in TimerIds : TimerStep(j)
    \/ Tick

SpecRekey == InitWith(RekeyConfigs) /\ [][NextRekey]_vars

\* ----------------------------------------------------------------- claims
\* steps of press_key by loop i
Invokes(i) == loops[i].pc = "pk_check" /\ loops'[i].pc # "pk_check"
Accepts(i) == Invokes(i) /\ loops'[i].pc = "pk_set"
Drops(i) == Invokes(i) /\ loops'[i].pc = "cadence"

\* C1: debounce rule.  An invocation of press_key that does not interleave with
\* another one is accepted iff no invocation was accepted before it or its
\* time is at least the cooldown after the time of the latest accepted one.
C1_DebounceRule ==
    [][ \A i \in LoopIds :
          (Invokes(i) /\ ~overlap') =>
             (Accepts(i) <=> (inv.accepted_at = 0
                              \/ now - inv.accepted_at >= config.cooldown_ms)) ]_vars

\* a third invocation dropped in the tick in which the second one was accepted,
\* one cooldown after the first
C1_Witness ==
    /\ config.cooldown_ms > 0
    /\ accepts = 2
    /\ inv.verdict = "dropped"
    /\ now - inv.accepted_at < config.cooldown_ms

\* C2: last_trigger_time is set before the key action is scheduled, so an
\* invocation that arrives within the cooldown of an invocation whose delayed
\* action is still pending is dropped.
C2_DroppedWhilePending ==
    [][ \A i \in LoopIds : \A j \in TimerIds :
          (Invokes(i) /\ timers[j].pc = "wait"
                      /\ now - timers[j].t < config.cooldown_ms) => Drops(i) ]_vars

\* the second invocation was dropped, one tick after the first, whose delayed
\* action has not fired yet
C2_Witness ==
    /\ inv.verdict = "dropped"
    /\ trigger_count = 0
    /\ pressed = 0
    /\ \E j \in TimerIds : timers[j].pc = "wait" /\ now = timers[j].t + 1

\* key actions executed whose increment of trigger_count is still to be stored
InFlight ==
    Cardinality({ i \in LoopIds : loops[i].pc = "ex_write" })
    + Cardinality({ j \in TimerIds : timers[j].pc = "write" })

\* C3: trigger_count equals the number of key actions executed, the increments
\* in progress apart: no increment is lost or duplicated.
C3_CountsEveryAction == trigger_count + InFlight = pressed

\* C4: with a press delay D > 0, trigger_count changes only when a delayed
\* action stores its increment, at least D after the invocation that scheduled
\* it, and never at schedule time.
C4_CountOnlyAfterDelay ==
    [][ (config.press_delay_ms > 0 /\ trigger_count' # trigger_count) =>
           \E j \in TimerIds :
              /\ timers[j].pc = "write"
              /\ timers'[j].pc = "free"
              /\ now >= timers[j].t + config.press_delay_ms ]_vars

\* two invocations accepted under cooldown 0 and a press delay, both counted
C4_Witness ==
    /\ config.press_delay_ms > 0
    /\ config.cooldown_ms = 0
    /\ accepts = 2
    /\ trigger_count = 2
    /\ now >= inv.accepted_at + config.press_delay_ms

\* C5: no step makes trigger_count smaller.
C5_CountNeverDecreases == [][ trigger_count' >= trigger_count ]_vars

\* the step is a call of start_monitoring
StartCalled == calls' # calls /\ calls'.op = "start"

\* C6: start_monitoring called while is_running changes nothing: no loop
\* thread is started, the flags, the thread reference, the counters and the
\* statistics stay as they are.
C6_StartWhileRunningIsNoOp ==
    [][ (StartCalled /\ is_running) =>
           UNCHANGED << is_running, is_paused, monitor_thread, loops, trigger_count,
                        last_trigger_time, detection_count, last_fps_check_time,
                        fps >> ]_vars

\* start was called on a paused loop, which stays paused
C6_Witness ==
    /\ calls.op = "start"
    /\ calls.was_running
    /\ calls.was_paused
    /\ is_running
    /\ is_paused
    /\ Alive(monitor_thread)

\* C7: start_monitoring called while not is_running ends RUNNING and not
\* paused, with a new loop thread started and referenced by monitor_thread.
C7_StartFromStopped ==
    [][ (StartCalled /\ ~is_running) =>
           /\ is_running'
           /\ ~is_paused'
           /\ ~Alive(monitor_thread')
           /\ loops'[monitor_thread'].pc = "init"
           /\ \A i \in LoopIds \ {monitor_thread'} : loops'[i] = loops[i] ]_vars

\* started from a stopped monitor whose paused flag was still set
C7_Witness ==
    /\ calls.op = "start"
    /\ ~calls.was_running
    /\ calls.was_paused
    /\ is_running
    /\ ~is_paused
    /\ loops[monitor_thread].pc = "init"

\* the lifecycle states as the flags give them
Stopped == ~is_running
Running == is_running /\ ~is_paused
Paused == is_running /\ is_paused

\* C8 as stated: is_paused implies is_running in every reachable state.
C8_PausedImpliesRunning == is_paused => is_running

\* C8 as amended: PAUSED is entered only from RUNNING; a paused flag left set
\* while stopped belongs to STOPPED and is cleared by the next start.
C8_PausedOnlyFromRunning ==
    [][ (Paused' /\ ~Paused) => (Running /\ is_running') ]_vars

\* PAUSED, entered from RUNNING by a loop that is polling
C8_Witness ==
    /\ Paused
    /\ calls = NoCall
    /\ \E i \in LoopIds : loops[i].pc = "poll"

\* C9: once is_running is cleared, every loop thread exits unless a start sets
\* the flag again; a loop that reads the cleared flag at the top of an
\* iteration exits there, and a loop in its poll sleep goes from the sleep to
\* the top of the loop, without a capture.
C9_LoopExitsAfterStop ==
    /\ ~is_running ~> (is_running \/ AliveLoops = {})
    /\ [][ \A i \in LoopIds :
             /\ (loops[i].pc = "top" /\ ~is_running /\ loops'[i] # loops[i]) =>
                   loops'[i].pc = "none"
             /\ (loops[i].pc = "poll" /\ loops'[i].pc # "poll") =>
                   loops'[i].pc = "top" ]_vars

\* stopped while paused, and the loop has exited
C9_Witness ==
    /\ ~is_running
    /\ is_paused
    /\ monitor_thread # NoThread
    /\ AliveLoops = {}
    /\ gui.pc = "idle"

\* C10: an iteration that observes is_paused goes to its poll sleep and from
\* there back to the top of the loop; between the two it captures nothing,
\* invokes no trigger and leaves the statistics and the counters unchanged.
C10_PausedIterationIsIdle ==
    [][ \A i \in LoopIds :
          /\ (loops[i].pc = "paused" /\ is_paused /\ loops'[i] # loops[i]) =>
                /\ loops'[i].pc = "poll"
                /\ UNCHANGED << detection_count, last_fps_check_time, fps,
                                trigger_count, last_trigger_time, timers, inv,
                                accepts, pressed >>
          /\ (loops[i].pc = "poll" /\ loops'[i].pc # "poll") =>
                /\ loops'[i].pc = "top"
                /\ UNCHANGED << detection_count, last_fps_check_time, fps,
                                trigger_count, last_trigger_time, timers, inv,
                                accepts, pressed >> ]_vars

\* a loop in its poll sleep, with frames already counted in the window
C10_Witness ==
    /\ is_paused
    /\ detection_count > 0
    /\ \E i \in LoopIds : loops[i].pc = "poll"

\* the configured key is a name the keyboard controller does not know
UnrecognizedKey == config.press_key = "nokey"

\* steps in which an operation of the iteration of loop i raises
CaptureFails(i) == loops[i].pc = "capture" /\ loops'[i].pc = "except"
KeyActionFails(i) ==
    loops[i].pc = "ex_press" /\ loops'[i] # loops[i] /\ UnrecognizedKey

\* the loop thread returns from monitor_loop
LoopExits(i) == Alive(i) /\ ~Alive(i)'

\* C11 as stated: a loop exits only at the top of an iteration with is_running
\* cleared, and every failure in an iteration, that of the key action
\* included, is followed by the backoff sleep and then by the next iteration.
C11_EveryFailureBacksOff ==
    [][ \A i \in LoopIds :
          /\ LoopExits(i) => (loops[i].pc = "top" /\ ~is_running)
          /\ (CaptureFails(i) \/ KeyActionFails(i)) =>
                (loops'[i].pc = "except" /\ loops'[i].left = PollSlice)
          /\ (loops[i].pc = "except" /\ loops'[i].pc # "except") =>
                loops'[i].pc = "cadence" ]_vars

\* C11 as amended: a loop exits only at the top of an iteration with
\* is_running cleared; a failed capture is followed by the backoff sleep and
\* the cadence step; a failed key action is caught inside _execute_press and
\* the loop goes on to the cadence step without a backoff sleep.
C11_NoFailureEndsTheLoop ==
    [][ \A i \in LoopIds :
          /\ LoopExits(i) => (loops[i].pc = "top" /\ ~is_running)
          /\ CaptureFails(i) => loops'[i].left = PollSlice
          /\ (loops[i].pc = "except" /\ loops'[i].pc # "except") =>
                loops'[i].pc = "cadence"
          /\ KeyActionFails(i) => loops'[i].pc = "cadence" ]_vars

\* a loop in its backoff sleep after a failed capture, in a run in which a key
\* action has failed before
C11_Witness ==
    /\ UnrecognizedKey
    /\ accepts > 0
    /\ pressed = 0
    /\ is_running
    /\ \E i \in LoopIds : loops[i].pc = "except"

\* C12: a key action that fails leaves trigger_count as it is and ends inside
\* _execute_press: the loop goes on to its cadence step, the Timer thread
\* ends, and no loop thread exits because of it.
C12_FailedActionNotCounted ==
    [][ UnrecognizedKey =>
          /\ trigger_count' = trigger_count
          /\ \A i \in LoopIds :
                /\ (loops[i].pc = "ex_press" /\ loops'[i] # loops[i]) =>
                      loops'[i].pc = "cadence"
                /\ LoopExits(i) => loops[i].pc = "top"
          /\ \A j \in TimerIds :
                (timers[j].pc = "wait" /\ timers'[j] # timers[j] /\ timers[j].left = 0
                 /\ now' = now) => timers'[j] = NoTimer ]_vars

\* two accepted invocations whose key actions have both failed, one of them
\* at least in a Timer thread, and the loop is in a later iteration
C12_Witness ==
    /\ UnrecognizedKey
    /\ config.press_delay_ms > 0
    /\ accepts = 2
    /\ trigger_count = 0
    /\ pressed = 0
    /\ \A j \in TimerIds : timers[j] = NoTimer
    /\ \E i \in LoopIds : loops[i].pc = "capture"

\* the step in which loop i computes the match of its frame and decides
Decides(i) == loops[i].pc = "match" /\ loops'[i] # loops[i]

\* pixels of img within the tolerance of the target on all three channels
WithinTolerance(img, cfg) ==
    { k \in DOMAIN img :
        /\ Abs(img[k][1] - cfg.target_color.r) <= cfg.color_tolerance
        /\ Abs(img[k][2] - cfg.target_color.g) <= cfg.color_tolerance
        /\ Abs(img[k][3] - cfg.target_color.b) <= cfg.color_tolerance }

\* C13: in an iteration whose capture and match succeed, press_key is invoked
\* iff the match ratio, 100 * matched / total, is at least
\* threshold_percentage; a ratio equal to the threshold invokes it.
C13_InvokedIffRatioReaches ==
    [][ \A i \in LoopIds :
          Decides(i) =>
            (loops'[i].pc = "pk_check"
               <=> 100 * Cardinality(WithinTolerance(loops[i].img, config))
                     >= config.threshold_percentage * Len(loops[i].img)) ]_vars

\* C14: check_color_match returns exactly 100 * matched / total, matched the
\* number of pixels within the tolerance (inclusive) on all three channels.
C14_RatioIsExact ==
    \A i \in LoopIds :
        loops[i].pc = "match" =>
           check_color_match(loops[i].img, config)
             = [whole |-> (100 * Cardinality(WithinTolerance(loops[i].img, config)))
                            \div Len(loops[i].img),
                ulps  |-> 0]

\* order of two percentages
AtMost(p, q) == p.whole < q.whole \/ (p.whole = q.whole /\ p.ulps <= q.ulps)

\* the percentage of img under the configuration cfg with another target and
\* another tolerance
RatioWith(img, cfg, px, tol) ==
    check_color_match(img, [cfg EXCEPT !.target_color = [r |-> px[1], g |-> px[2],
                                                         b |-> px[3]],
                                       !.color_tolerance = tol])

\* tolerances and targets the properties of the ratio are checked for
ToleranceRange == {0, 1, 29, 30, 31, 254, 255}
Targets == { Red, Black, <<128, 128, 128>>, <<255, 255, 255>> }

\* C15: for the frame a loop holds and any target, the ratio is monotone in
\* the tolerance: t1 <= t2 implies ratio(t1) <= ratio(t2).
C15_MonotoneInTolerance ==
    \A i \in LoopIds :
        loops[i].pc = "match" =>
           \A px \in Targets : \A t1, t2 \in ToleranceRange :
               t1 <= t2 => AtMost(RatioWith(loops[i].img, config, px, t1),
                                  RatioWith(loops[i].img, config, px, t2))

\* a frame whose ratio grows strictly from tolerance 0 to 30 to 255
C15_Witness ==
    \E i \in LoopIds :
        /\ loops[i].pc = "match"
        /\ RatioWith(loops[i].img, config, Red, 0).whole
              < RatioWith(loops[i].img, config, Red, 30).whole
        /\ RatioWith(loops[i].img, config, Red, 30).whole
              < RatioWith(loops[i].img, config, Red, 255).whole

\* C16: for the frame a loop holds, any target and any tolerance >= 0, the
\* ratio lies in [0, 100], and with tolerance 255 it is exactly 100.
C16_RatioInRange ==
    \A i \in LoopIds :
        loops[i].pc = "match" =>
           \A px \in Targets :
              /\ \A tol \in ToleranceRange :
                    /\ AtMost([whole |-> 0, ulps |-> 0],
                              RatioWith(loops[i].img, config, px, tol))
                    /\ AtMost(RatioWith(loops[i].img, config, px, tol),
                              [whole |-> 100, ulps |-> 0])
              /\ RatioWith(loops[i].img, config, px, 255) = [whole |-> 100, ulps |-> 0]

\* under tolerance 255 a frame with pixels at distance 255 from the target has
\* ratio 100
C16_Witness ==
    \E i \in LoopIds :
        /\ loops[i].pc = "match"
        /\ config.color_tolerance = 255
        /\ \E k \in DOMAIN loops[i].img : loops[i].img[k] = Black
        /\ check_color_match(loops[i].img, config) = [whole |-> 100, ulps |-> 0]

\* the time loop i has spent in its iteration
Cost(i) == now - loops[i].loop_start_time

\* C17: at the end of a non-paused iteration with check interval I > 0 and
\* cost c < I the loop sleeps I - c, and the sleep ends, with the next
\* iteration to start, no earlier than I after the start of this one; with
\* c >= I or I = 0 the loop goes to the next iteration without a sleep.
C17_Cadence ==
    [][ \A i \in LoopIds :
          /\ (loops[i].pc = "cadence" /\ loops'[i] # loops[i]) =>
                IF config.check_interval_ms > 0 /\ Cost(i) < config.check_interval_ms
                THEN /\ loops'[i].pc = "sleep"
                     /\ loops'[i].left = config.check_interval_ms - Cost(i)
                ELSE loops'[i].pc = "top"
          /\ (loops[i].pc = "sleep" /\ loops'[i].pc # "sleep") =>
                /\ loops'[i].pc = "top"
                /\ Cost(i) >= config.check_interval_ms ]_vars

\* an iteration that took one tick has slept the rest of its interval of 2
C17_Witness ==
    \E i \in LoopIds :
        /\ loops[i].pc = "sleep"
        /\ loops[i].left = 0
        /\ config.check_interval_ms = 2
        /\ pressed > 0
        /\ Cost(i) = config.check_interval_ms

\* C18: every parameter a step of an iteration reads comes from the record
\* that was in force when the iteration started.
C18_OneRecordPerIteration ==
    [][ \A i \in LoopIds :
          loops'[i] # loops[i] =>
            /\ loops[i].pc = "capture" =>
                  config.monitor_region = loops[i].at_start.monitor_region
            /\ loops[i].pc = "match" =>
                  /\ config.target_color = loops[i].at_start.target_color
                  /\ config.color_tolerance = loops[i].at_start.color_tolerance
                  /\ config.threshold_percentage
                        = loops[i].at_start.threshold_percentage
            /\ loops[i].pc = "pk_check" =>
                  config.cooldown_ms = loops[i].at_start.cooldown_ms
            /\ loops[i].pc = "pk_set" =>
                  config.press_delay_ms = loops[i].at_start.press_delay_ms
            /\ loops[i].pc = "cadence" =>
                  config.check_interval_ms = loops[i].at_start.check_interval_ms ]_vars

\* the step in which load_config ends
Loads == gui.pc = "new" /\ gui'.pc # "new"

\* C19: from a stored object that lacks some of the default keys load_config
\* returns a record with every default key, each missing key and sub-key at
\* its default value and each stored one at its stored value.
C19_MergeKeepsStoredValues ==
    [][ (Loads /\ file.kind = "object") =>
          /\ gui'.pc = "idle"
          /\ TopKeys \subseteq DOMAIN config'
          /\ \A key \in TopKeys \ NestedKeys :
                config'[key] = IF key \in DOMAIN file.obj
                               THEN file.obj[key] ELSE default_config[key]
          /\ \A key \in NestedKeys :
                /\ DOMAIN default_config[key] \subseteq DOMAIN config'[key]
                /\ \A sub_key \in DOMAIN default_config[key] :
                      config'[key][sub_key]
                        = IF key \in DOMAIN file.obj /\ sub_key \in DOMAIN file.obj[key]
                          THEN file.obj[key][sub_key]
                          ELSE default_config[key][sub_key] ]_vars

\* loaded from a file without color_tolerance and without target_color.r:
\* both at their defaults, the stored values kept
C19_Witness ==
    /\ gui.pc = "idle"
    /\ file.kind = "object"
    /\ DOMAIN file.obj = TopKeys \ {"color_tolerance"}
    /\ DOMAIN file.obj.target_color = {"g", "b"}
    /\ config.color_tolerance = 30
    /\ config.target_color = [r |-> 255, g |-> 128, b |-> 64]
    /\ config.press_key = "space"

\* C20: load_config raises no error; from an absent or corrupt file (not
\* parseable, or parseable but not a record) it returns the defaults and
\* writes them to the file; from a record with keys missing it returns the
\* merged record and leaves the file as it is.
C20_LoadIsNeverFatal ==
    [][ Loads =>
          /\ gui'.pc = "idle"
          /\ file.kind # "object" =>
                (config' = default_config /\ file' = Stored(default_config))
          /\ file.kind = "object" => file' = file ]_vars


\* C21: a dropped invocation changes nothing.  An invocation of press_key made
\* while now - last_trigger_time < cooldown returns at once: last_trigger_time
\* and trigger_count keep their values, no key action is executed, and no
\* delayed action is scheduled or kept for later.
C21_DroppedChangesNothing ==
    [][ \A i \in LoopIds :
          (Invokes(i) /\ now - last_trigger_time < config.cooldown_ms) =>
             /\ loops'[i].pc = "cadence"
             /\ last_trigger_time' = last_trigger_time
             /\ trigger_count' = trigger_count
             /\ pressed' = pressed
             /\ accepts' = accepts
             /\ timers' = timers ]_vars

\* an invocation has just been dropped, one tick after the accepted one whose
\* key action was counted
C21_Witness ==
    /\ inv.verdict = "dropped"
    /\ \E i \in LoopIds : loops[i].pc = "cadence"
    /\ config.press_delay_ms = 0
    /\ accepts = 1
    /\ trigger_count = 1
    /\ now = last_trigger_time + 1

\* the loops inside the inline _execute_press
Executing == { i \in LoopIds : loops[i].pc \in {"ex_press", "ex_write"} }

\* the delayed actions accepted and not yet executed
Pending == { j \in TimerIds : timers[j].pc = "wait" }

\* C22: dispatch of an accepted invocation.  With press delay 0 the key action
\* and the increment of trigger_count complete inside press_key, before the
\* loop reaches its cadence step, and no Timer is started.  With press delay
\* D > 0 the step that accepts returns at once to the loop's cadence step,
\* having started a Timer of D and executed nothing, so the loop goes on while
\* the action is pending.
C22_Dispatch ==
    /\ [] ( (config.press_delay_ms = 0 /\ Executing = {}) =>
               /\ pressed = accepts
               /\ trigger_count = accepts
               /\ \A j \in TimerIds : timers[j] = NoTimer )
    /\ [][ \A i \in LoopIds :
             (loops[i].pc = "pk_set" /\ loops'[i].pc # "pk_set"
                 /\ config.press_delay_ms > 0) =>
                /\ loops'[i].pc = "cadence"
                /\ now' = now
                /\ pressed' = pressed
                /\ trigger_count' = trigger_count
                /\ \E j \in TimerIds :
                      /\ timers[j].pc = "free"
                      /\ timers'[j].pc = "wait"
                      /\ timers'[j].left = config.press_delay_ms ]_vars

\* a later iteration of the loop has had a second invocation accepted while
\* the delayed action of the first is still waiting for its delay to elapse
C22_Witness ==
    /\ config.press_delay_ms > 0
    /\ accepts = 2
    /\ pressed = 0
    /\ Cardinality(Pending) = 2
    /\ \E j \in Pending : timers[j].left > 0
    /\ \E i \in LoopIds : loops[i].pc = "capture"

\* the step in which loop i stores its statistics update, and the one in which
\* it runs the statements before the while loop
CountsFrame(i) == loops[i].pc = "fps" /\ loops'[i].pc # "fps"
StartsLoop(i) == loops[i].pc = "init" /\ loops'[i].pc # "init"

\* C23: sampling statistics.  Every successful capture adds exactly one to
\* detection_count, or, when at least the window of 1 s has elapsed since
\* last_fps_check_time, sets fps to (detection_count + 1) / elapsed, resets
\* detection_count to 0 and sets last_fps_check_time to now; the start of a
\* loop resets the counter and the window; no other step (a failed capture, a
\* paused iteration) changes the statistics.
C23_CountsEveryCapture ==
    [][ /\ \A i \in LoopIds :
             CountsFrame(i) =>
                IF WindowElapsed(now, last_fps_check_time)
                THEN /\ fps' = << detection_count + 1, now - last_fps_check_time >>
                     /\ detection_count' = 0
                     /\ last_fps_check_time' = now
                ELSE /\ detection_count' = detection_count + 1
                     /\ UNCHANGED << fps, last_fps_check_time >>
        /\ \A i \in LoopIds :
             StartsLoop(i) => detection_count' = 0 /\ last_fps_check_time' = now
        /\ (\A i \in LoopIds : ~CountsFrame(i) /\ ~StartsLoop(i)) =>
             UNCHANGED << detection_count, last_fps_check_time, fps >> ]_vars

\* stop_monitoring has returned
StopReturned == ~is_running /\ monitor_thread # NoThread /\ gui.pc = "idle"

\* C24: a stop or a pause does not cancel a delayed action.  No lifecycle call
\* touches a Timer; every pending action is executed once its delay has
\* elapsed, whatever the flags are by then; and when stop_monitoring has
\* returned, the loop has ended and one accepted action is still pending,
\* trigger_count goes up by one afterwards, is_running being false.
C24_StopDoesNotCancel ==
    /\ [][ (is_running' # is_running \/ is_paused' # is_paused) =>
              timers' = timers ]_vars
    /\ \A j \in TimerIds : (timers[j].pc = "wait") ~> (timers[j].pc = "write")
    /\ \A n \in 0 .. MaxAccepts :
          (StopReturned /\ AliveLoops = {} /\ Cardinality(Pending) = 1
              /\ InFlight = 0 /\ trigger_count = n)
            ~> (~is_running /\ trigger_count = n + 1)

\* stop_monitoring returned in the tick in which the invocation was accepted,
\* the loop has ended, and one tick later the Timer thread has pressed the key
\* and is about to store its increment
C24_Witness ==
    /\ StopReturned
    /\ AliveLoops = {}
    /\ pressed = 1
    /\ trigger_count = 0
    /\ \E j \in TimerIds : timers[j].pc = "write" /\ now = timers[j].t + 1

\* the pending actions whose delay, counted from the clock reading of their
\* invocation, has not elapsed yet
WithinDelay == { j \in Pending : now - timers[j].t < config.press_delay_ms }

\* C25 as stated: with cooldown C >= press delay D > 0 at most one delayed
\* action is pending at any time.
C25_OnePendingUnderCooldown ==
    (config.cooldown_ms >= config.press_delay_ms /\ config.press_delay_ms > 0) =>
        Cardinality(Pending) <= 1

\* C25, amended: with cooldown C >= press delay D > 0 at most one pending
\* action is within D of the clock reading of its invocation; a second action
\* is pending only while an earlier one is overdue (its Timer was started late
\* or has not run yet), and the invocations of two pending actions are at
\* least C apart.
C25_OneWithinDelay ==
    (config.cooldown_ms >= config.press_delay_ms /\ config.press_delay_ms > 0) =>
        /\ Cardinality(WithinDelay) <= 1
        /\ \A j, k \in Pending :
              j # k => Abs(timers[j].t - timers[k].t) >= config.cooldown_ms

\* two actions pending under cooldown 2 and press delay 1: the first is
\* overdue, the second was accepted one cooldown after it
C25_Witness ==
    /\ config.cooldown_ms >= config.press_delay_ms
    /\ config.press_delay_ms > 0
    /\ Cardinality(Pending) = 2
    /\ Cardinality(WithinDelay) = 1
    /\ \E j \in Pending \ WithinDelay : timers[j].left = 0

\* C26: at most one monitor_loop thread is alive at any time, over every
\* sequence of start_monitoring and stop_monitoring calls.
C26_OneLoopAlive == Cardinality(AliveLoops) <= 1

\* a step of start_monitoring, stop_monitoring (its join included),
\* pause_monitoring or resume_monitoring
LifecycleStep == shared' # shared \/ gui'.pc # gui.pc \/ calls' # calls

\* C27: the lifecycle operations and the start of a loop thread leave
\* trigger_count and last_trigger_time unchanged, so both carry over a
\* stop / start cycle: an invocation made within the cooldown of the latest
\* accepted one is dropped, whichever run that one belongs to.
C27_TriggerStateCarriesOver ==
    [][ /\ LifecycleStep => UNCHANGED << trigger_count, last_trigger_time >>
        /\ \A i \in LoopIds :
              StartsLoop(i) => UNCHANGED << trigger_count, last_trigger_time >>
        /\ \A i \in LoopIds :
              (Invokes(i) /\ ~overlap' /\ inv.accepted_at > 0
                  /\ now - inv.accepted_at < config.cooldown_ms) => Drops(i) ]_vars

\* after a stop and a restart: the one loop thread alive was started in this
\* tick, has captured its first frame, and its invocation was dropped because
\* of the trigger accepted and counted in the previous run
C27_Witness ==
    /\ is_running
    /\ Cardinality(AliveLoops) = 1
    /\ last_fps_check_time = now
    /\ detection_count = 1
    /\ inv.verdict = "dropped"
    /\ inv.accepted_at < now
    /\ last_trigger_time = inv.accepted_at
    /\ accepts = 1
    /\ trigger_count = 1

\* the step in which the Timer thread j runs _execute_press up to the key
\* action
Fires(j) == timers[j].pc = "wait" /\ timers'[j].pc # "wait"

\* C28: a delayed action presses the press_key of the record in force when it
\* executes: it presses that key when the controller accepts it and fails when
\* not, whatever the key was when the invocation was accepted.  A replacement
\* of the record leaves every Timer as it is, so the action executes no
\* earlier than the delay it was scheduled with after its invocation.
C28_KeyReadAtExecution ==
    [][ /\ \A j \in TimerIds :
              Fires(j) =>
                 /\ IF ValidKey(config.press_key)
                    THEN /\ pressed' = pressed + 1
                         /\ timers'[j].pc = "write"
                         /\ timers'[j].key_str = config.press_key
                    ELSE /\ pressed' = pressed
                         /\ timers'[j] = NoTimer
                 /\ now - timers[j].t >= Lowest(Delays \ {0})
        /\ config' # config => timers' = timers ]_vars

\* an action accepted under the key the controller rejects has pressed "e",
\* the key installed while it was pending, one tick after its invocation
\* although the record in force now has press delay 0
C28_Witness ==
    \E j \in TimerIds :
        /\ timers[j].pc = "write"
        /\ timers[j].at_accept = "nokey"
        /\ timers[j].key_str = "e"
        /\ config.press_key = "e"
        /\ config.press_delay_ms = 0
        /\ now = timers[j].t + 1
====
